---------------------------- MODULE Spec2Model ----------------------------
(***************************************************************************)
(* Model of `forge verify-bytecode` (crates/verify/src/bytecode.rs,        *)
(* VerifyBytecodeArgs::run).  One behaviour of the model is one run of     *)
(* the command: the variables are the fields of `self` that the run reads, *)
(* the locals of `run`, the collaborator calls made so far and the         *)
(* position of control (pc).  Collaborator answers (provider, etherscan,   *)
(* compiler, executor) are drawn from small sets at the step that asks.    *)
(***************************************************************************)
EXTENDS Integers, Sequences, FiniteSets, TLC

(* ------------------------------------------------------------------ *)
(* Bounds of the model                                                 *)
(* ------------------------------------------------------------------ *)
MaxCodeLen == 1
MaxArgsLen == 1
MaxInputLen == 2
MaxParams == 1
MaxBlock == 1

(* ------------------------------------------------------------------ *)
(* Program constants                                                   *)
(* ------------------------------------------------------------------ *)
\* `transaction.input[..32]` / `transaction.input[32..]`: the salt width.
SALT_LEN == 32
\* `result.result.len() != 20`: the width of an address.
ADDRESS_LEN == 20
\* `let genesis_block_number = 0_u64`
genesis_block_number == 0
\* one ABI word, the width DynSolValue::abi_encode gives every static value
ABI_WORD == 32
\* u64::MAX, what `0_u64 - 1` wraps to in a build without overflow checks
\* (a stand-in that fits the checker's integers; only its being larger than
\* every block of the chain matters).
U64_MAX == 1000000

(* ------------------------------------------------------------------ *)
(* Option<T>, bytes, addresses                                         *)
(* ------------------------------------------------------------------ *)
None == << >>
Some(v) == << v >>
IsSome(o) == o # << >>
IsNone(o) == o = << >>
Unwrap(o) == o[1]

Byte == {0, 1}

RECURSIVE SeqsUpTo(_, _)
SeqsUpTo(S, n) ==
    IF n = 0 THEN { << >> }
    ELSE LET shorter == SeqsUpTo(S, n - 1)
         IN  shorter \cup { Append(s, x) : s \in { t \in shorter : Len(t) = n - 1 }, x \in S }

\* `a.ends_with(b)` on byte slices
EndsWith(a, b) ==
    /\ Len(b) <= Len(a)
    /\ SubSeq(a, Len(a) - Len(b) + 1, Len(a)) = b

\* `&a[n..]`, defined when n <= a.len()
SliceFrom(a, n) == SubSeq(a, n + 1, Len(a))
\* `&a[..n]`, defined when n <= a.len()
SliceTo(a, n) == SubSeq(a, 1, n)

Zeros(n) == [i \in 1..n |-> 0]

\* Addresses that occur in a run.
TARGET == "self.address"
DEFAULT_CREATE2_DEPLOYER == "DEFAULT_CREATE2_DEPLOYER"
OTHER_ADDRESS == "other"
\* `Address::with_last_byte(0x1)`
GENESIS_DEPLOYER == "0x..01"
SENDER == "transaction.from"


(* ------------------------------------------------------------------ *)
(* The values the inputs and the collaborators' answers range over     *)
(* ------------------------------------------------------------------ *)
\* artifact.bytecode, when linked
LocalBytecodes == { [i \in 1..n |-> i % 2] : n \in 1..MaxCodeLen }
\* source_code.items[0].constructor_arguments
EtherscanArgs == SeqsUpTo(Byte, MaxArgsLen)
\* creation code as it went on chain (init code followed by its arguments)
CreationBodies == SeqsUpTo(Byte, MaxInputLen)
\* the salt of a call to the deterministic deployer
SALT == [i \in 1..SALT_LEN |-> i % 2]
\* the creation transaction the provider reports: a contract creation
\* (`to` empty), a call to the deterministic deployer with any input, short
\* of a salt or salt ++ creation code, or a call to some other contract
Transactions ==
    { [from |-> SENDER, to |-> None, input |-> b, nonce |-> 1] : b \in CreationBodies }
    \cup { [from |-> SENDER, to |-> Some(DEFAULT_CREATE2_DEPLOYER), input |-> b, nonce |-> 1] :
             b \in CreationBodies \cup { SALT \o c : c \in CreationBodies } }
    \cup { [from |-> SENDER, to |-> Some(OTHER_ADDRESS), input |-> << >>, nonce |-> 1] }
\* its receipt: the same `to`, and a creation has a created address; or a
\* receipt that tells of a creation where the transaction tells of a call
Receipts(tx) ==
    IF tx.to = None
    THEN { [to |-> None, contract_address |-> Some(a)] : a \in { TARGET, OTHER_ADDRESS } }
    ELSE IF tx.to = Some(OTHER_ADDRESS)
    THEN { [to |-> tx.to, contract_address |-> None],
           [to |-> None, contract_address |-> Some(TARGET)] }
    ELSE { [to |-> tx.to, contract_address |-> None] }
\* what the user can pass as --constructor-args / in --constructor-args-path
TypedLists == { [i \in 1..n |-> 1] : n \in 0..(MaxParams + 1) }
\* a file of constructor args: unreadable, or holding a list
ArgsFiles == { [readable |-> FALSE, args |-> << >>] }
             \cup { [readable |-> TRUE, args |-> l] : l \in TypedLists }
\* --encoded-constructor-args: a string that is hex or is not
HexStrings == { [valid |-> FALSE, bytes |-> << >>] }
              \cup { [valid |-> TRUE, bytes |-> b] : b \in SeqsUpTo({1}, MaxArgsLen) }
\* artifact.abi.constructor(): None, or the number of its inputs
Constructors == { None, Some(MaxParams) }
\* --block
BlockIds == { [kind |-> "number", n |-> b] : b \in 0..MaxBlock }
            \cup { [kind |-> "tag", n |-> 0], [kind |-> "hash", n |-> 0] }
\* --ignore
IgnoreValues == { None, Some("creation"), Some("runtime") }
\* runtime code: what the chain holds, what the fork holds after deployment
OnchainCodes == { << >>, <<0>> }
ForkCodes == { <<0>> }
\* account nonces
Nonces == {0, 1}

MatchTypes == { "Exact", "Partial", "None" }
BytecodeTypes == { "Creation", "Runtime" }

(* ------------------------------------------------------------------ *)
(* State                                                               *)
(* ------------------------------------------------------------------ *)
VARIABLES
    pc,                        \* position in `run`
    error,                     \* the error `run` returned with, "" if none
    calls,                     \* collaborator calls made so far, in order
    ignore,                    \* self.ignore
    block,                     \* self.block
    constructor_args_cli,      \* self.constructor_args
    constructor_args_path,     \* self.constructor_args_path (and the file)
    encoded_constructor_args,  \* self.encoded_constructor_args
    json_results,              \* results reported through print_result
    stdout,                    \* the JSON line `run` printed, if any
    creation_data,             \* Option: the creation transaction's hash
    maybe_predeploy,
    etherscan_metadata,        \* source_code.items[0]
    artifact,                  \* the local artifact: its abi constructor
    local_bytecode,
    constructor_args,
    provided_constructor_args,
    local_bytecode_vec,
    transaction,
    receipt,
    maybe_creation_code,
    simulation_block,
    fork_config,               \* fork_config.fork_block_number
    env,                       \* env.block and env.tx
    executor,                  \* what the run did to the executor's backend
    fork_runtime_code          \* code read back from the fork after deployment

vars == << pc, error, calls, ignore, block, constructor_args_cli,
           constructor_args_path, encoded_constructor_args, json_results, stdout,
           creation_data, maybe_predeploy, etherscan_metadata, artifact, local_bytecode,
           constructor_args, provided_constructor_args, local_bytecode_vec,
           transaction, receipt, maybe_creation_code, simulation_block,
           fork_config, env, executor, fork_runtime_code >>

\* the fields of `self`: never written by `run`
selfVars == << ignore, block, constructor_args_cli, constructor_args_path,
               encoded_constructor_args >>
\* provenance and compilation
sourceVars == << creation_data, maybe_predeploy, etherscan_metadata, artifact,
                local_bytecode >>
\* constructor args resolution
argsVars == << constructor_args, provided_constructor_args >>
\* the creation transaction
txVars == << transaction, receipt, maybe_creation_code >>
\* the replay
replayVars == << simulation_block, fork_config, env, executor, fork_runtime_code >>

NoTransaction == [from |-> SENDER, to |-> None, input |-> << >>, nonce |-> 0]
NoReceipt == [to |-> None, contract_address |-> None]
NoEnv == [number |-> -1, header |-> None, tx |-> None]
NoExecutor == [created |-> FALSE, funded |-> {}, create2_deployer |-> FALSE,
               executed |-> << >>]

\* lines 43-66: the three ways to give constructor args
\* --constructor-args takes one value or more (`num_args(1..)`)
CliArgs == { None } \cup { Some(l) : l \in TypedLists \ { << >> } }
PathArgs == { None } \cup { Some(f) : f \in ArgsFiles }
EncodedArgs == { None } \cup { Some(h) : h \in HexStrings }
\* `conflicts_with_all`: the parser accepts at most one of them
ConflictsWithAll(cli, path, encoded) ==
    Cardinality({ i \in 1..3 : IsSome(<< cli, path, encoded >>[i]) }) <= 1

\* the locals of `run` before its first statement
InitRun ==
    /\ pc = "setup"
    /\ error = ""
    /\ calls = << >>
    /\ json_results = << >>
    /\ stdout = None
    /\ creation_data = None
    /\ maybe_predeploy = FALSE
    /\ etherscan_metadata = [constructor_arguments |-> << >>]
    /\ artifact = [constructor |-> None]
    /\ local_bytecode = << >>
    /\ constructor_args = << >>
    /\ provided_constructor_args = None
    /\ local_bytecode_vec = << >>
    /\ transaction = NoTransaction
    /\ receipt = NoReceipt
    /\ maybe_creation_code = << >>
    /\ simulation_block = 0
    /\ fork_config = [fork_block_number |-> None]
    /\ env = NoEnv
    /\ executor = NoExecutor
    /\ fork_runtime_code = << >>

\* `pub struct VerifyBytecodeArgs` as the command line parser builds it
Init ==
    /\ ignore \in IgnoreValues
    /\ block \in { None } \cup { Some(b) : b \in BlockIds }
    /\ constructor_args_cli \in CliArgs
    /\ constructor_args_path \in PathArgs
    /\ encoded_constructor_args \in EncodedArgs
    /\ ConflictsWithAll(constructor_args_cli, constructor_args_path,
                        encoded_constructor_args)
    /\ InitRun

\* `pub struct VerifyBytecodeArgs` built by a caller of the crate (its fields
\* are public): any combination of the three constructor args sources,
\* here without --ignore and --block
InitAnySources ==
    /\ ignore = None
    /\ block = None
    /\ constructor_args_cli \in CliArgs
    /\ constructor_args_path \in PathArgs
    /\ encoded_constructor_args \in EncodedArgs
    /\ InitRun

\* the error noted and the failed statement entered again
Bail_retry(msg) ==
    /\ pc' = pc
    /\ error' = msg

\* `eyre::bail!` / `?`: run returns Err; nothing else changes.
Bail(msg) ==
    /\ pc' = "aborted"
    /\ error' = msg

\* an index out of range, or an arithmetic overflow in a checked build
Panic(msg) ==
    /\ pc' = "panicked"
    /\ error' = msg

\* one collaborator call: the operation, the block it asks about (-1: the
\* latest block, or no block) and the account it asks about ("": none)
\* and what it answered, where the run depends on it: `ret` ("": not
\* recorded) and, for a number, `n` (-1: none)
Answered(name, at, who, ret, n) ==
    [op |-> name, at |-> at, who |-> who, ret |-> ret, n |-> n]
CallRec(name, at, who) == Answered(name, at, who, "", -1)
CallAt(name, at, who) == calls' = Append(calls, CallRec(name, at, who))
Call(name) == CallAt(name, -1, "")

(* ------------------------------------------------------------------ *)
(* Result<T>                                                           *)
(* ------------------------------------------------------------------ *)
Ok(v) == [ok |-> TRUE, v |-> v, msg |-> "", panic |-> FALSE]
Err(m) == [ok |-> FALSE, v |-> << >>, msg |-> m, panic |-> FALSE]
\* not a Result: the thread panics while computing the value
Panics(m) == [ok |-> FALSE, v |-> << >>, msg |-> m, panic |-> TRUE]

(* ------------------------------------------------------------------ *)
(* Collaborators whose code is outside bytecode.rs                     *)
(* ------------------------------------------------------------------ *)
\* crate::utils::maybe_predeploy_contract: creation data that is absent
\* classifies the contract as a predeploy; any other failure is an error.
\* Ok((creation_data, maybe_predeploy)).
maybe_predeploy_contract(answer) ==
    CASE answer = "found"     -> Ok([creation_data |-> Some("tx_hash"), maybe_predeploy |-> FALSE])
      [] answer = "not_found" -> Ok([creation_data |-> None, maybe_predeploy |-> TRUE])
      [] OTHER                       -> Err("Error fetching creation data from verifier-url")

\* crate::utils::match_bytecodes: equal bytes are an exact match; unequal
\* bytes are a partial match when they agree outside the metadata region
\* (and the constructor args), which the model leaves open.
match_bytecodes(local, remote) ==
    IF local = remote THEN { "Exact" } ELSE { "Partial", "None" }

\* crate::utils::print_result: one result record for the bytecode kind.
print_result(results, match_type, bytecode_type) ==
    Append(results, [bytecode_type |-> bytecode_type, match_type |-> match_type])

\* DynSolValue::Tuple(args).abi_encode(): one word per (static) value.
RECURSIVE abi_encode(_)
abi_encode(args) ==
    IF args = << >> THEN << >>
    ELSE Zeros(ABI_WORD - 1) \o << Head(args) >> \o abi_encode(Tail(args))

(* ------------------------------------------------------------------ *)
(* Reporting                                                           *)
(* ------------------------------------------------------------------ *)
\* lines 431-438: the Creation result goes to print_result
ReportedCreation(results, match_type) == print_result(results, match_type, "Creation")
\* the Runtime result put in front of what was reported before
ReportedRuntime_first(results, match_type) ==
    << [bytecode_type |-> "Runtime", match_type |-> match_type] >> \o results
\* lines 343-350, 443-450, 581-588: the Runtime result goes to print_result
ReportedRuntime(results, match_type) == print_result(results, match_type, "Runtime")

\* lines 352-354, 451-453, 591-593: `if self.json { println!(..json_results..) }`
Emit(json, results) == IF json THEN Some(results) ELSE None
\* ... as the last statement before `run` returns Ok(()); self.json is read
\* here and nowhere else in the steps modelled, so its value is drawn here
Finish == \E json \in BOOLEAN : stdout' = Emit(json, json_results')

(* ------------------------------------------------------------------ *)
(* Lines 202-225: the constructor args the user provided               *)
(* ------------------------------------------------------------------ *)
\* lines 203-208: the file wins over --constructor-args.
\* Result<Option<Vec<String>>>
UserArgsList(path, cli) ==
    IF IsSome(path)
    THEN IF Unwrap(path).readable THEN Ok(Some(Unwrap(path).args))
         ELSE Err("read_constructor_args_file")
    ELSE Ok(cli)

\* the length test of lines 211-217 left out
EncodeUserArgs_nocheck(constructor, args) ==
    IF IsSome(constructor) THEN Ok(abi_encode(args)) ELSE Ok(<< >>)
\* lines 210-222, the closure: Result<Vec<u8>>
EncodeUserArgs(constructor, args) ==
    IF IsSome(constructor)
    THEN IF Unwrap(constructor) # Len(args)
         THEN Err("Mismatch of constructor arguments length")
         ELSE Ok(abi_encode(args))
    ELSE Ok(<< >>)

\* line 225, the argument of `.or(..)`: Result<Option<Vec<u8>>>
DecodeHexArgs(encoded) ==
    IF IsSome(encoded)
    THEN IF Unwrap(encoded).valid THEN Ok(Some(Unwrap(encoded).bytes))
         ELSE Err("hex::decode")
    ELSE Ok(None)

\* `b.or(a)`: the operands swapped
OptionOr_swapped(a, b) == IF IsSome(b) THEN b ELSE a
\* `a.or(b)` on Options
OptionOr(a, b) == IF IsSome(a) THEN a ELSE b

\* lines 203-225 as a whole: Result<Option<Vec<u8>>>.  The receiver of
\* `.or` (with its `?`) is evaluated before the argument (with its `?`).
ProvidedConstructorArgs(path, cli, encoded, constructor) ==
    LET list == UserArgsList(path, cli)
    IN  IF ~list.ok THEN list
        ELSE LET typed == IF IsSome(list.v)
                          THEN EncodeUserArgs(constructor, Unwrap(list.v))
                          ELSE Ok(<< >>)
                 hexed == DecodeHexArgs(encoded)
             IN  IF ~typed.ok THEN typed
                 ELSE IF ~hexed.ok THEN hexed
                 ELSE Ok(OptionOr(IF IsSome(list.v) THEN Some(typed.v) ELSE None,
                                  hexed.v))

(* ------------------------------------------------------------------ *)
(* Lines 119-229: setup, provenance, compilation, user args            *)
(* ------------------------------------------------------------------ *)
\* lines 119-140: config, provider, chain, etherscan client
Setup ==
    /\ pc = "setup"
    /\ \/ pc' = "get_code" /\ UNCHANGED error
       \/ Bail("setup")
    /\ UNCHANGED << calls, selfVars, json_results, stdout, sourceVars, argsVars,
                    local_bytecode_vec, txVars, replayVars >>

\* lines 142-146: the code at the address, latest block
GetCode ==
    /\ pc = "get_code"
    /\ \/ Bail("get_code_at") /\ CallAt("get_code_at", -1, TARGET)
       \/ \E code \in OnchainCodes :
            /\ calls' = Append(calls, Answered("get_code_at", -1, TARGET, "", Len(code)))
            /\ IF code = << >>
               THEN Bail("No bytecode found at address")
               ELSE pc' = "creation_data" /\ UNCHANGED error
    /\ UNCHANGED << selfVars, json_results, stdout, sourceVars, argsVars,
                    local_bytecode_vec, txVars, replayVars >>

\* lines 158-165: creation data, or the predeploy classification
GetCreationData ==
    /\ pc = "creation_data"
    /\ Call("contract_creation_data")
    /\ \E answer \in { "found", "not_found", "error" } :
         LET r == maybe_predeploy_contract(answer)
         IN  IF r.ok
             THEN /\ maybe_predeploy' = r.v.maybe_predeploy
                  /\ creation_data' = r.v.creation_data
                  /\ pc' = "source_code"
                  /\ UNCHANGED error
             ELSE Bail(r.msg) /\ UNCHANGED << maybe_predeploy, creation_data >>
    /\ UNCHANGED << selfVars, json_results, stdout, etherscan_metadata, artifact,
                    local_bytecode, argsVars, local_bytecode_vec, txVars,
                    replayVars >>

\* lines 167-177: the verified source's metadata; the contract name
GetSourceCode ==
    /\ pc = "source_code"
    /\ Call("contract_source_code")
    /\ \/ Bail("contract_source_code") /\ UNCHANGED etherscan_metadata
       \/ Bail("Contract name mismatch") /\ UNCHANGED etherscan_metadata
       \/ \E a \in EtherscanArgs :
            /\ etherscan_metadata' = [constructor_arguments |-> a]
            /\ pc' = "build"
            /\ UNCHANGED error
    /\ UNCHANGED << selfVars, json_results, stdout, creation_data, maybe_predeploy,
                    artifact, local_bytecode, argsVars, local_bytecode_vec,
                    txVars, replayVars >>

\* lines 179-193: the local artifact and its (linked) creation bytecode
BuildArtifact ==
    /\ pc = "build"
    /\ Call("build")
    /\ \/ Bail("build_project") /\ UNCHANGED << artifact, local_bytecode >>
       \/ \E c \in Constructors :
            /\ artifact' = [constructor |-> c]
            /\ \/ Bail("Unlinked bytecode is not supported for verification")
                  /\ UNCHANGED local_bytecode
               \/ \E b \in LocalBytecodes :
                    /\ local_bytecode' = b
                    /\ pc' = "provided_args"
                    /\ UNCHANGED error
    /\ UNCHANGED << selfVars, json_results, stdout, creation_data, maybe_predeploy,
                    etherscan_metadata, argsVars, local_bytecode_vec, txVars,
                    replayVars >>

\* the branch of line 231 never taken
AfterProvidedArgs_mined(predeploy) == "get_transaction"
\* line 231: `if maybe_predeploy`, else on to line 359
AfterProvidedArgs(predeploy) ==
    IF predeploy THEN "predeploy_fork" ELSE "get_transaction"

\* lines 195-229: etherscan's args, overridden by what the user provided
ResolveProvidedArgs ==
    /\ pc = "provided_args"
    /\ LET provided == ProvidedConstructorArgs(constructor_args_path,
                           constructor_args_cli, encoded_constructor_args,
                           artifact.constructor)
       IN  IF ~provided.ok
           THEN /\ Bail(provided.msg)
                /\ constructor_args' = etherscan_metadata.constructor_arguments
                /\ UNCHANGED provided_constructor_args
           ELSE /\ provided_constructor_args' = provided.v
                /\ constructor_args' =
                     IF IsSome(provided.v) THEN Unwrap(provided.v)
                     ELSE etherscan_metadata.constructor_arguments
                /\ pc' = AfterProvidedArgs(maybe_predeploy)
                /\ UNCHANGED error
    /\ UNCHANGED << calls, selfVars, json_results, stdout, sourceVars,
                    local_bytecode_vec, txVars, replayVars >>

(* ------------------------------------------------------------------ *)
(* Lines 231-357: the predeploy path                                   *)
(* ------------------------------------------------------------------ *)
\* the constructor args not appended
CreationPayload_noargs(local, args) == local
\* lines 246-249 and 416-419: `local_bytecode_vec.extend_from_slice(&constructor_args)`
CreationPayload(local, args) == local \o args

\* lines 246-266: the payload, the fork at genesis, the executor
PredeployFork ==
    /\ pc = "predeploy_fork"
    /\ local_bytecode_vec' = CreationPayload(local_bytecode, constructor_args)
    /\ \/ /\ Bail("load_config_and_evm_opts")
          /\ UNCHANGED << calls, fork_config, executor, env >>
       \/ /\ Bail("evm_version")
          /\ fork_config' = [fork_block_number |-> Some(genesis_block_number)]
          /\ UNCHANGED << calls, executor, env >>
       \/ /\ fork_config' = [fork_block_number |-> Some(genesis_block_number)]
          /\ CallAt("get_fork_material", genesis_block_number, "")
          /\ \/ Bail("get_fork_material") /\ UNCHANGED << executor, env >>
             \/ /\ executor' = [executor EXCEPT !.created = TRUE]
                /\ env' = [env EXCEPT !.number = genesis_block_number]
                /\ pc' = "predeploy_block"
                /\ UNCHANGED error
    /\ UNCHANGED << selfVars, json_results, stdout, sourceVars, argsVars, txVars,
                    simulation_block, fork_runtime_code >>

\* lines 268-294: the genesis block's header, the genesis transaction
PredeployBlock ==
    /\ pc = "predeploy_block"
    /\ \/ /\ Bail("get_block")
          /\ CallAt("get_block", genesis_block_number, "")
          /\ env' = [env EXCEPT !.number = 0]
          /\ UNCHANGED transaction
       \/ \E genesis_block \in { None, Some(genesis_block_number) } :
            /\ calls' = Append(calls, Answered("get_block", genesis_block_number, "",
                                   IF IsSome(genesis_block) THEN "found" ELSE "absent", -1))
            /\ env' = [env EXCEPT !.number = 0, !.header = genesis_block]
            /\ transaction' = [from |-> GENESIS_DEPLOYER, to |-> None,
                               input |-> local_bytecode_vec, nonce |-> 0]
            /\ pc' = "predeploy_deploy"
            /\ UNCHANGED error
    /\ UNCHANGED << selfVars, json_results, stdout, sourceVars, argsVars,
                    local_bytecode_vec, receipt, maybe_creation_code,
                    simulation_block, fork_config, executor, fork_runtime_code >>

\* lines 296-314: the funded deployer, the deployment
PredeployDeploy ==
    /\ pc = "predeploy_deploy"
    /\ env' = [env EXCEPT !.tx = Some(transaction)]
    /\ Call("deploy_with_env")
    /\ executor' = [executor EXCEPT
                       !.funded = @ \cup { GENESIS_DEPLOYER },
                       !.executed = Append(@, [op |-> "deploy", tx |-> transaction,
                                               fork |-> fork_config.fork_block_number])]
    /\ \/ Bail("deploy_with_env")
       \/ pc' = "predeploy_read_code" /\ UNCHANGED error
    /\ UNCHANGED << selfVars, json_results, stdout, sourceVars, argsVars,
                    local_bytecode_vec, txVars, simulation_block, fork_config,
                    fork_runtime_code >>

\* lines 316-332: the deployed account and its code
PredeployReadCode ==
    /\ pc = "predeploy_read_code"
    /\ Call("basic")
    /\ \/ Bail("basic") /\ UNCHANGED fork_runtime_code
       \/ Bail("Failed to get runtime code for contract deployed on fork")
          /\ UNCHANGED fork_runtime_code
       \/ Bail("Bytecode does not exist for contract deployed on fork")
          /\ UNCHANGED fork_runtime_code
       \/ \E deployed_bytecode \in ForkCodes :
            /\ fork_runtime_code' = deployed_bytecode
            /\ pc' = "predeploy_compare"
            /\ UNCHANGED error
    /\ UNCHANGED << selfVars, json_results, stdout, sourceVars, argsVars,
                    local_bytecode_vec, txVars, simulation_block, fork_config,
                    env, executor >>

\* lines 334-356: the one runtime comparison, against the latest code
PredeployCompare ==
    /\ pc = "predeploy_compare"
    /\ \/ /\ Bail("get_code_at")
          /\ CallAt("get_code_at", -1, TARGET)
          /\ UNCHANGED << json_results, stdout >>
       \/ \E onchain_runtime_code \in OnchainCodes :
          \E match_type \in match_bytecodes(fork_runtime_code, onchain_runtime_code) :
            /\ calls' = calls \o << Answered("get_code_at", -1, TARGET, "",
                                            Len(onchain_runtime_code)),
                                   Answered("match_bytecodes", -1, "Runtime", match_type, -1) >>
            /\ json_results' = ReportedRuntime(json_results, match_type)
            /\ Finish
            /\ pc' = "done"
            /\ UNCHANGED error
    /\ UNCHANGED << selfVars, sourceVars, argsVars, local_bytecode_vec,
                    txVars, replayVars >>

(* ------------------------------------------------------------------ *)
(* Lines 359-419: the creation transaction and the constructor args    *)
(* ------------------------------------------------------------------ *)
\* lines 361-369
GetTransaction ==
    /\ pc = "get_transaction"
    /\ \/ /\ Bail("Couldn't fetch transaction from RPC")
          /\ Call("get_transaction_by_hash")
          /\ UNCHANGED transaction
       \/ /\ Bail("Transaction not found for hash")
          /\ calls' = Append(calls, Answered("get_transaction_by_hash", -1, "", "absent", -1))
          /\ UNCHANGED transaction
       \/ \E tx \in Transactions :
            /\ calls' = Append(calls, Answered("get_transaction_by_hash", -1, "", "found", -1))
            /\ transaction' = tx
            /\ pc' = "get_receipt"
            /\ UNCHANGED error
    /\ UNCHANGED << selfVars, json_results, stdout, sourceVars, argsVars,
                    local_bytecode_vec, receipt, maybe_creation_code, replayVars >>

\* lines 370-381
GetReceipt ==
    /\ pc = "get_receipt"
    /\ \/ /\ Bail("Couldn't fetch transaction receipt from RPC")
          /\ Call("get_transaction_receipt")
          /\ UNCHANGED receipt
       \/ /\ Bail("Receipt not found for transaction hash")
          /\ calls' = Append(calls, Answered("get_transaction_receipt", -1, "", "absent", -1))
          /\ UNCHANGED receipt
       \/ \E rcpt \in Receipts(transaction) :
            /\ calls' = Append(calls, Answered("get_transaction_receipt", -1, "", "found", -1))
            /\ receipt' = rcpt
            /\ pc' = "creation_code"
            /\ UNCHANGED error
    /\ UNCHANGED << selfVars, json_results, stdout, sourceVars, argsVars,
                    local_bytecode_vec, transaction, maybe_creation_code, replayVars >>

\* the created address not compared with the target
CreationCodeOf_anycreation(tx, rcpt) ==
    IF rcpt.to = None
    THEN Ok(tx.input)
    ELSE IF rcpt.to = Some(DEFAULT_CREATE2_DEPLOYER)
    THEN IF SALT_LEN <= Len(tx.input)
         THEN Ok(SliceFrom(tx.input, SALT_LEN))
         ELSE Panics("range start index 32 out of range for slice")
    ELSE Err("Could not extract the creation code for contract at address")
\* lines 384-394: the creation code inside the transaction's input
CreationCodeOf(tx, rcpt) ==
    IF rcpt.to = None /\ rcpt.contract_address = Some(TARGET)
    THEN Ok(tx.input)
    ELSE IF rcpt.to = Some(DEFAULT_CREATE2_DEPLOYER)
    THEN IF SALT_LEN <= Len(tx.input)
         THEN Ok(SliceFrom(tx.input, SALT_LEN))
         ELSE Panics("range start index 32 out of range for slice")
    ELSE Err("Could not extract the creation code for contract at address")

\* lines 383-394
ExtractCreationCode ==
    /\ pc = "creation_code"
    /\ LET code == CreationCodeOf(transaction, receipt)
       IN  IF code.ok
           THEN /\ maybe_creation_code' = code.v
                /\ pc' = "resolve_args"
                /\ UNCHANGED error
           ELSE /\ IF code.panic THEN Panic(code.msg) ELSE Bail(code.msg)
                /\ UNCHANGED maybe_creation_code
    /\ UNCHANGED << calls, selfVars, json_results, stdout, sourceVars, argsVars,
                    local_bytecode_vec, transaction, receipt, replayVars >>

\* the length test of line 404 left out
ShouldRederive_nolen(provided, creation_code, args, local) ==
    /\ IsNone(provided)
    /\ ~EndsWith(creation_code, args)
\* lines 396-404: whether the args are extracted from the creation code
ShouldRederive(provided, creation_code, args, local) ==
    /\ IsNone(provided)
    /\ ~EndsWith(creation_code, args)
    /\ Len(creation_code) >= Len(local)

\* the last local_bytecode.len() bytes instead of the bytes after them
RederivedArgs_last(creation_code, local) ==
    SliceFrom(creation_code, Len(creation_code) - Len(local))
\* lines 405-406: `&maybe_creation_code[local_bytecode.len()..]`
RederivedArgs(creation_code, local) == SliceFrom(creation_code, Len(local))

\* lines 396-414
ResolvedConstructorArgs(provided, creation_code, args, local) ==
    IF IsSome(provided) THEN Unwrap(provided)
    ELSE IF ShouldRederive(provided, creation_code, args, local)
    THEN RederivedArgs(creation_code, local)
    ELSE args

\* lines 396-419: the final constructor args and the payload
ResolveArgs ==
    /\ pc = "resolve_args"
    /\ LET resolved == ResolvedConstructorArgs(provided_constructor_args,
                           maybe_creation_code, constructor_args, local_bytecode)
       IN  /\ constructor_args' = resolved
           /\ local_bytecode_vec' = CreationPayload(local_bytecode, resolved)
    /\ pc' = "creation_check"
    /\ UNCHANGED << error, calls, selfVars, json_results, stdout, sourceVars,
                    provided_constructor_args, txVars, replayVars >>

(* ------------------------------------------------------------------ *)
(* Lines 421-456: the creation code comparison                         *)
(* ------------------------------------------------------------------ *)
\* --ignore creation not honoured
CreationIgnored_never(ign) == FALSE
\* line 423: `self.ignore.is_some_and(|b| b.is_creation())`
CreationIgnored(ign) == ign = Some("creation")
\* line 458: `self.ignore.is_some_and(|b| b.is_runtime())`
RuntimeIgnored(ign) == ign = Some("runtime")
\* the short-circuit never taken
CreationMismatch_never(match_type) == FALSE
\* line 442: `match_type.is_none()`
CreationMismatch(match_type) == match_type = "None"
\* the runtime comparison skipped whatever --ignore says
AfterCreationCheck_done(ign) == "done"
\* line 458, as the step after the creation comparison
AfterCreationCheck(ign) == IF RuntimeIgnored(ign) THEN "done" ELSE "simulation_block"

\* lines 421-456
CreationCheck ==
    /\ pc = "creation_check"
    /\ IF CreationIgnored(ignore)
       THEN /\ pc' = AfterCreationCheck(ignore)
            /\ UNCHANGED << json_results, calls >>
       ELSE \E match_type \in match_bytecodes(local_bytecode_vec, maybe_creation_code) :
              /\ calls' = Append(calls,
                             Answered("match_bytecodes", -1, "Creation", match_type, -1))
              /\ IF CreationMismatch(match_type)
                 THEN /\ json_results' =
                           ReportedRuntime(ReportedCreation(json_results, match_type), "None")
                      /\ pc' = "done"
                 ELSE /\ json_results' = ReportedCreation(json_results, match_type)
                      /\ pc' = AfterCreationCheck(ignore)
    /\ IF pc' = "done" THEN Finish ELSE UNCHANGED stdout
    /\ UNCHANGED << error, selfVars, sourceVars, argsVars, local_bytecode_vec,
                    txVars, replayVars >>

(* ------------------------------------------------------------------ *)
(* Lines 458-589: the runtime code comparison, by replay                *)
(* ------------------------------------------------------------------ *)
\* any block reference taken for a number
UserBlock_lenient(b) ==
    IF IsNone(b) THEN None ELSE Some(Ok(Unwrap(b).n))
\* lines 460-462: the block the user named, when it is a literal number
UserBlock(b) ==
    IF IsNone(b) THEN None
    ELSE IF Unwrap(b).kind = "number" THEN Some(Ok(Unwrap(b).n))
    ELSE Some(Err("Invalid block number"))

\* lines 460-474: the block of the creation
SimulationBlock ==
    /\ pc = "simulation_block"
    /\ IF IsSome(UserBlock(block))
       THEN LET b == Unwrap(UserBlock(block))
            IN  /\ IF b.ok
                   THEN simulation_block' = b.v /\ pc' = "replay_fork" /\ UNCHANGED error
                   ELSE Bail(b.msg) /\ UNCHANGED simulation_block
                /\ UNCHANGED calls
       ELSE \/ Bail("get_provider") /\ UNCHANGED << calls, simulation_block >>
            \/ /\ Bail("Couldn't fetch transaction from RPC")
               /\ Call("get_transaction_by_hash")
               /\ UNCHANGED simulation_block
            \/ /\ Bail("Transaction not found for hash")
               /\ calls' = Append(calls,
                              Answered("get_transaction_by_hash", -1, "", "absent", -1))
               /\ UNCHANGED simulation_block
            \/ /\ Bail("Failed to get block number of the contract creation tx")
               /\ calls' = Append(calls,
                              Answered("get_transaction_by_hash", -1, "", "found", -1))
               /\ UNCHANGED simulation_block
            \/ \E block_number \in 0..MaxBlock :
                 /\ calls' = Append(calls,
                                Answered("get_transaction_by_hash", -1, "", "found",
                                         block_number))
                 /\ simulation_block' = block_number
                 /\ pc' = "replay_fork"
                 /\ UNCHANGED error
    /\ UNCHANGED << selfVars, json_results, stdout, sourceVars, argsVars,
                    local_bytecode_vec, txVars, fork_config, env, executor,
                    fork_runtime_code >>

\* the replay block itself, not the one before it
PrevBlock_same(b) == { [panic |-> FALSE, v |-> b, msg |-> ""] }
\* lines 478 and 496: `simulation_block - 1` on u64.  With overflow checks
\* the subtraction panics at 0; without them it wraps.
PrevBlock(b) ==
    IF b = 0
    THEN { [panic |-> TRUE, v |-> 0, msg |-> "attempt to subtract with overflow"],
           [panic |-> FALSE, v |-> U64_MAX, msg |-> ""] }
    ELSE { [panic |-> FALSE, v |-> b - 1, msg |-> ""] }

\* lines 476-490: the fork one block before, the executor.  No chain has a
\* block 2^64 - 1: fork material for it cannot be got.
ReplayFork ==
    /\ pc = "replay_fork"
    /\ \/ /\ Bail("load_config_and_evm_opts")
          /\ UNCHANGED << calls, fork_config, executor, env >>
       \/ \E prev \in PrevBlock(simulation_block) :
            IF prev.panic
            THEN Panic(prev.msg) /\ UNCHANGED << calls, fork_config, executor, env >>
            ELSE /\ fork_config' = [fork_block_number |-> Some(prev.v)]
                 /\ \/ Bail("evm_version") /\ UNCHANGED << calls, executor, env >>
                    \/ /\ CallAt("get_fork_material", prev.v, "")
                       /\ \/ Bail("get_fork_material") /\ UNCHANGED << executor, env >>
                          \/ /\ prev.v # U64_MAX
                             /\ executor' = [executor EXCEPT !.created = TRUE]
                             /\ env' = [env EXCEPT !.number = prev.v]
                             /\ pc' = "replay_env"
                             /\ UNCHANGED error
    /\ UNCHANGED << selfVars, json_results, stdout, sourceVars, argsVars,
                    local_bytecode_vec, txVars, simulation_block, fork_runtime_code >>

\* lines 491-511: the block's header, the sender's nonce one block before.
\* The fork was made, so line 496 computes what line 478 computed.
ReplayEnvironment ==
    /\ pc = "replay_env"
    /\ LET prev_block_id == Unwrap(fork_config.fork_block_number)
           get_block(ret) == Answered("get_block", simulation_block, "", ret, -1)
           get_count(n) ==
               Answered("get_transaction_count", prev_block_id, transaction.from, "", n)
       IN  \/ /\ Bail("get_block")
              /\ calls' = Append(calls, get_block(""))
              /\ env' = [env EXCEPT !.number = simulation_block]
              /\ UNCHANGED transaction
           \/ \E blk \in { None, Some(simulation_block) } :
                LET found == IF IsSome(blk) THEN "found" ELSE "absent"
                IN  \/ /\ Bail("get_transaction_count")
                       /\ calls' = calls \o << get_block(found), get_count(-1) >>
                       /\ env' = [env EXCEPT !.number = simulation_block]
                       /\ UNCHANGED transaction
                    \/ \E prev_block_nonce \in Nonces :
                         /\ calls' = calls \o << get_block(found),
                                                get_count(prev_block_nonce) >>
                         /\ transaction' = [transaction EXCEPT !.nonce = prev_block_nonce]
                         /\ env' = [env EXCEPT !.number = simulation_block,
                                               !.header = blk]
                         /\ pc' = "replay_input"
                         /\ UNCHANGED error
    /\ UNCHANGED << selfVars, json_results, stdout, sourceVars, argsVars,
                    local_bytecode_vec, receipt, maybe_creation_code,
                    simulation_block, fork_config, executor, fork_runtime_code >>

\* lines 514-525: the input of the replayed transaction
ReplayInput(tx, payload) ==
    IF IsSome(tx.to)
    THEN IF Unwrap(tx.to) = DEFAULT_CREATE2_DEPLOYER
         THEN IF SALT_LEN <= Len(tx.input)
              THEN Ok(SliceTo(tx.input, SALT_LEN) \o payload)
              ELSE Panics("range end index 32 out of range for slice")
         ELSE Ok(tx.input)
    ELSE Ok(payload)

\* lines 513-525: the local creation code goes into the transaction
ReplaceInput ==
    /\ pc = "replay_input"
    /\ LET input == ReplayInput(transaction, local_bytecode_vec)
       IN  IF input.panic
           THEN Panic(input.msg) /\ UNCHANGED << transaction, executor, calls >>
           ELSE /\ transaction' = [transaction EXCEPT !.input = input.v]
                /\ IF transaction.to = Some(DEFAULT_CREATE2_DEPLOYER)
                   THEN /\ Call("deploy_create2_deployer")
                        /\ \/ Bail("deploy_create2_deployer") /\ UNCHANGED executor
                           \/ /\ executor' = [executor EXCEPT !.create2_deployer = TRUE]
                              /\ pc' = "replay_execute"
                              /\ UNCHANGED error
                   ELSE /\ pc' = "replay_execute"
                        /\ UNCHANGED << error, executor, calls >>
    /\ UNCHANGED << selfVars, json_results, stdout, sourceVars, argsVars,
                    local_bytecode_vec, receipt, maybe_creation_code,
                    simulation_block, fork_config, env, fork_runtime_code >>

\* any call result taken for an address
CallResultIsAddress_any(result_len) == TRUE
\* line 540: `result.result.len() != 20` bails
CallResultIsAddress(result_len) == result_len = ADDRESS_LEN

\* lines 527-548: the transaction is executed on the fork
ReplayExecute ==
    /\ pc = "replay_execute"
    /\ env' = [env EXCEPT !.tx = Some(transaction)]
    /\ IF IsSome(transaction.to)
       THEN IF Unwrap(transaction.to) # DEFAULT_CREATE2_DEPLOYER
            THEN /\ Bail("Transaction to address is not the default create2 deployer")
                 /\ UNCHANGED << executor, calls >>
            ELSE /\ executor' = [executor EXCEPT !.executed =
                        Append(@, [op |-> "transact", tx |-> transaction,
                                   fork |-> fork_config.fork_block_number])]
                 /\ \/ Bail("transact_with_env") /\ Call("transact_with_env")
                    \/ \E result_len \in { 0, ADDRESS_LEN, ABI_WORD } :
                         /\ calls' = Append(calls,
                                Answered("transact_with_env", -1, "", "", result_len))
                         /\ IF CallResultIsAddress(result_len)
                            THEN pc' = "replay_read_code" /\ UNCHANGED error
                            ELSE Bail("call result is not exactly 20 bytes")
       ELSE /\ Call("deploy_with_env")
            /\ executor' = [executor EXCEPT !.executed =
                   Append(@, [op |-> "deploy", tx |-> transaction,
                              fork |-> fork_config.fork_block_number])]
            /\ \/ Bail("deploy_with_env")
               \/ pc' = "replay_read_code" /\ UNCHANGED error
    /\ UNCHANGED << selfVars, json_results, stdout, sourceVars, argsVars,
                    local_bytecode_vec, txVars, simulation_block, fork_config,
                    fork_runtime_code >>

\* lines 550-566: the deployed account and its code
ReplayReadCode ==
    /\ pc = "replay_read_code"
    /\ Call("basic")
    /\ \/ Bail("basic") /\ UNCHANGED fork_runtime_code
       \/ Bail("Failed to get runtime code for contract deployed on fork")
          /\ UNCHANGED fork_runtime_code
       \/ Bail("Bytecode does not exist for contract deployed on fork")
          /\ UNCHANGED fork_runtime_code
       \/ \E code \in ForkCodes :
            /\ fork_runtime_code' = code
            /\ pc' = "replay_compare"
            /\ UNCHANGED error
    /\ UNCHANGED << selfVars, json_results, stdout, sourceVars, argsVars,
                    local_bytecode_vec, txVars, simulation_block, fork_config,
                    env, executor >>

\* the latest block asked, as at lines 142 and 334
CodeBlockOfReplay_latest(b) == -1
\* lines 568-571: `.block_id(BlockId::number(simulation_block))`
CodeBlockOfReplay(b) == b

\* lines 568-594: the runtime comparison against the code at the block
ReplayCompare ==
    /\ pc = "replay_compare"
    /\ \/ /\ Bail("get_code_at")
          /\ CallAt("get_code_at", CodeBlockOfReplay(simulation_block), TARGET)
          /\ UNCHANGED << json_results, stdout >>
       \/ \E onchain_runtime_code \in OnchainCodes :
          \E match_type \in match_bytecodes(fork_runtime_code, onchain_runtime_code) :
            /\ calls' = calls \o << Answered("get_code_at",
                                            CodeBlockOfReplay(simulation_block), TARGET,
                                            "", Len(onchain_runtime_code)),
                                   Answered("match_bytecodes", -1, "Runtime", match_type, -1) >>
            /\ json_results' = ReportedRuntime(json_results, match_type)
            /\ Finish
            /\ pc' = "done"
            /\ UNCHANGED error
    /\ UNCHANGED << selfVars, sourceVars, argsVars, local_bytecode_vec,
                    txVars, replayVars >>

(* ------------------------------------------------------------------ *)
(* The run                                                             *)
(* ------------------------------------------------------------------ *)
Next ==
    \/ Setup
    \/ GetCode
    \/ GetCreationData
    \/ GetSourceCode
    \/ BuildArtifact
    \/ ResolveProvidedArgs
    \/ PredeployFork
    \/ PredeployBlock
    \/ PredeployDeploy
    \/ PredeployReadCode
    \/ PredeployCompare
    \/ GetTransaction
    \/ GetReceipt
    \/ ExtractCreationCode
    \/ ResolveArgs
    \/ CreationCheck
    \/ SimulationBlock
    \/ ReplayFork
    \/ ReplayEnvironment
    \/ ReplaceInput
    \/ ReplayExecute
    \/ ReplayReadCode
    \/ ReplayCompare

Spec == Init /\ [][Next]_vars

\* the same run, started with any combination of constructor args sources
SpecAnySources == InitAnySources /\ [][Next]_vars

(* ------------------------------------------------------------------ *)
(* Vocabulary of the properties                                        *)
(* ------------------------------------------------------------------ *)
Result(kind, match_type) == [bytecode_type |-> kind, match_type |-> match_type]
ResultsOf(kind) == { i \in 1..Len(json_results) : json_results[i].bytecode_type = kind }
CallsOf(ops) == { i \in 1..Len(calls) : calls[i].op \in ops }

\* the steps of a replay: fork construction, deployer deployment, execution
ReplayOps == { "get_fork_material", "deploy_create2_deployer",
               "transact_with_env", "deploy_with_env", "basic" }
NoReplay ==
    /\ CallsOf(ReplayOps) = {}
    /\ executor = NoExecutor
    /\ IsNone(fork_config.fork_block_number)

\* positions of a non-predeploy run after lines 396-419
ResolvedPcs == { "creation_check", "simulation_block", "replay_fork", "replay_env",
                 "replay_input", "replay_execute", "replay_read_code",
                 "replay_compare", "done" }
\* ... of those, the ones where transaction.input is still the mined input
MinedInputPcs == { "creation_check", "simulation_block", "replay_fork", "replay_env",
                   "replay_input" }
\* positions of a predeploy run after line 231
PredeployPcs == { "predeploy_fork", "predeploy_block", "predeploy_deploy",
                  "predeploy_read_code", "predeploy_compare", "done" }
\* positions before lines 195-229 are done
EarlyPcs == { "setup", "get_code", "creation_data", "source_code", "build",
              "provided_args" }

\* what the user passed as a typed list (the file first), if anything
UserList ==
    IF IsSome(constructor_args_path) THEN Some(Unwrap(constructor_args_path).args)
    ELSE constructor_args_cli
UserSupplied == IsSome(UserList) \/ IsSome(encoded_constructor_args)
ProvenanceArgs == etherscan_metadata.constructor_arguments

\* the run is not a predeploy and its args were extracted from the creation code
Rederived ==
    /\ ~maybe_predeploy
    /\ pc \in ResolvedPcs
    /\ ~UserSupplied
    /\ constructor_args # ProvenanceArgs

(* ------------------------------------------------------------------ *)
(* C1                                                                  *)
(* ------------------------------------------------------------------ *)
\* C1: in a non-predeploy run whose creation comparison yields None, the run
\* has ended normally with exactly [Creation None, Runtime None] and no step
\* of a replay (fork, deployer, deploy, transact) was made.
C1_CreationNoneShortCircuits ==
    (/\ ~maybe_predeploy
     /\ \E i \in 1..Len(json_results) : json_results[i] = Result("Creation", "None"))
    => /\ pc = "done"
       /\ error = ""
       /\ json_results = << Result("Creation", "None"), Result("Runtime", "None") >>
       /\ NoReplay

C1_Witness ==
    /\ pc = "done"
    /\ ~maybe_predeploy
    /\ json_results = << Result("Creation", "None"), Result("Runtime", "None") >>
    /\ CallsOf({ "match_bytecodes" }) # {}

(* ------------------------------------------------------------------ *)
(* C2                                                                  *)
(* ------------------------------------------------------------------ *)
\* C2: once lines 195-229 are done the constructor args are the typed list,
\* ABI-encoded against the constructor (empty without one), else the hex
\* bytes verbatim, else the provenance bytes or their re-derivation; with a
\* typed list or hex bytes they stay that value at every later position,
\* whatever the creation code on chain is.
C2_Precedence ==
    (pc \notin EarlyPcs \cup { "aborted", "panicked" })
    => IF IsSome(UserList)
       THEN constructor_args =
              IF IsSome(artifact.constructor) THEN abi_encode(Unwrap(UserList)) ELSE << >>
       ELSE IF IsSome(encoded_constructor_args)
       THEN constructor_args = Unwrap(encoded_constructor_args).bytes
       ELSE \/ constructor_args = ProvenanceArgs
            \/ /\ pc \in ResolvedPcs
               /\ ~maybe_predeploy
               /\ Len(maybe_creation_code) >= Len(local_bytecode)
               /\ constructor_args =
                    SubSeq(maybe_creation_code, Len(local_bytecode) + 1, Len(maybe_creation_code))

\* a typed list and hex bytes both given, past the tail step, where the
\* creation code on chain does not end with the args
C2_Witness ==
    /\ pc = "creation_check"
    /\ IsSome(UserList)
    /\ IsSome(artifact.constructor)
    /\ IsSome(encoded_constructor_args)
    /\ constructor_args = abi_encode(Unwrap(UserList))
    /\ constructor_args # Unwrap(encoded_constructor_args).bytes
    /\ ~EndsWith(maybe_creation_code, constructor_args)
    /\ Len(maybe_creation_code) >= Len(local_bytecode)

(* ------------------------------------------------------------------ *)
(* C3                                                                  *)
(* ------------------------------------------------------------------ *)
\* the three conditions of the claim, on the provenance-reported args
C3_Conditions ==
    /\ ~UserSupplied
    /\ ~EndsWith(maybe_creation_code, ProvenanceArgs)
    /\ Len(maybe_creation_code) >= Len(local_bytecode)

\* C3: in a non-predeploy run the args are re-derived exactly when no typed
\* list and no hex bytes were given, the creation code on chain does not end
\* with the provenance args and is no shorter than the local bytecode;
\* otherwise, with nothing user-supplied, the provenance args are kept; and
\* the step never ends the run.
C3_RederiveIff ==
    /\ [](  (~maybe_predeploy /\ pc \in ResolvedPcs)
            => /\ Rederived <=> C3_Conditions
               /\ (~UserSupplied /\ ~C3_Conditions) => constructor_args = ProvenanceArgs)
    /\ [][ pc = "resolve_args" => (pc' = "creation_check" /\ error' = "") ]_vars

\* the creation code on chain is shorter than the local bytecode and does
\* not end with the provenance args: they are kept
C3_Witness ==
    /\ pc = "creation_check"
    /\ ~UserSupplied
    /\ Len(maybe_creation_code) < Len(local_bytecode)
    /\ ~EndsWith(maybe_creation_code, ProvenanceArgs)
    /\ constructor_args = ProvenanceArgs

(* ------------------------------------------------------------------ *)
(* C4                                                                  *)
(* ------------------------------------------------------------------ *)
\* C4: re-derived args are the creation code on chain from offset
\* len(local bytecode) on, so local ++ args is as long as the creation code
\* and that code ends with the args; for the deterministic deployer the
\* creation code is the mined input without its first 32 bytes.
C4_RederivedIsTail ==
    Rederived
    => /\ constructor_args =
            SubSeq(maybe_creation_code, Len(local_bytecode) + 1, Len(maybe_creation_code))
       /\ Len(local_bytecode \o constructor_args) = Len(maybe_creation_code)
       /\ EndsWith(maybe_creation_code, constructor_args)
       /\ (pc \in MinedInputPcs)
            => maybe_creation_code =
                 IF receipt.to = Some(DEFAULT_CREATE2_DEPLOYER)
                 THEN SubSeq(transaction.input, SALT_LEN + 1, Len(transaction.input))
                 ELSE transaction.input

C4_Witness ==
    /\ Rederived
    /\ pc = "creation_check"
    /\ receipt.to = Some(DEFAULT_CREATE2_DEPLOYER)
    /\ constructor_args # << >>

(* ------------------------------------------------------------------ *)
(* C5                                                                  *)
(* ------------------------------------------------------------------ *)
\* the constructor args are final
ArgsResolved ==
    \/ ~maybe_predeploy /\ pc \in ResolvedPcs
    \/ maybe_predeploy /\ pc \in PredeployPcs

\* C5: once resolved the constructor args never change, and the payload of
\* the creation comparison, of the genesis deployment and of the replayed
\* transaction is the local creation bytecode followed by exactly those args.
C5_PayloadIsLocalPlusArgs ==
    /\ [](  /\ ((~maybe_predeploy /\ pc \in ResolvedPcs)
                 \/ (maybe_predeploy /\ pc \in PredeployPcs \ { "predeploy_fork" }))
               => local_bytecode_vec = local_bytecode \o constructor_args
            /\ \A i \in 1..Len(executor.executed) :
                 LET e == executor.executed[i]
                 IN  /\ EndsWith(e.tx.input, constructor_args)
                     /\ e.op = "deploy" => e.tx.input = local_bytecode \o constructor_args
                     /\ e.op = "transact"
                          => SubSeq(e.tx.input, SALT_LEN + 1, Len(e.tx.input))
                               = local_bytecode \o constructor_args )
    /\ [][ ArgsResolved => constructor_args' = constructor_args ]_vars

C5_Witness ==
    /\ Len(executor.executed) = 1
    /\ executor.executed[1].op = "transact"
    /\ constructor_args # << >>
    /\ pc = "replay_read_code"

(* ------------------------------------------------------------------ *)
(* C6                                                                  *)
(* ------------------------------------------------------------------ *)
\* the bytecode kind is the one --ignore names
Ignored(kind) ==
    IF kind = "Creation" THEN CreationIgnored(ignore) ELSE RuntimeIgnored(ignore)

\* C6, as stated: a run that ended normally holds exactly one result for
\* each bytecode kind that is not ignored, and never two of one kind.
C6_OnePerKind ==
    pc = "done"
    => \A kind \in BytecodeTypes :
         /\ Cardinality(ResultsOf(kind)) <= 1
         /\ ~Ignored(kind) => Cardinality(ResultsOf(kind)) = 1

\* C6, amended: a run that ended normally holds exactly one Runtime result
\* unless runtime is ignored; exactly one Creation result unless creation is
\* ignored or the run is a predeploy; a predeploy run holds no Creation
\* result; and no run holds two results of one kind.
C6_OnePerKindButPredeploy ==
    pc = "done"
    => /\ \A kind \in BytecodeTypes : Cardinality(ResultsOf(kind)) <= 1
       /\ ~RuntimeIgnored(ignore) => Cardinality(ResultsOf("Runtime")) = 1
       /\ (~maybe_predeploy /\ ~CreationIgnored(ignore))
            => Cardinality(ResultsOf("Creation")) = 1
       /\ maybe_predeploy => ResultsOf("Creation") = {}

\* a predeploy run with nothing ignored, ended with its one Runtime result
C6_Witness ==
    /\ pc = "done"
    /\ maybe_predeploy
    /\ ignore = None
    /\ Len(json_results) = 1
    /\ json_results[1].bytecode_type = "Runtime"

(* ------------------------------------------------------------------ *)
(* C7                                                                  *)
(* ------------------------------------------------------------------ *)
\* C7: no reported result is of a bytecode kind that --ignore names, at any
\* position of any run (predeploy, creation mismatch, replay).
C7_IgnoredNeverReported ==
    \A i \in 1..Len(json_results) : ~Ignored(json_results[i].bytecode_type)

(* ------------------------------------------------------------------ *)
(* C8                                                                  *)
(* ------------------------------------------------------------------ *)
\* the calls of a predeploy run that execute or compare
DeployCalls == CallsOf({ "deploy_with_env" })
RuntimeComparisons ==
    { i \in CallsOf({ "match_bytecodes" }) : calls[i].who = "Runtime" }

\* C8: absent creation data makes the run a predeploy.  A predeploy run
\* never looks up a transaction or a receipt, never compares creation code,
\* keeps the args it had after lines 195-229 (no re-derivation), deploys at
\* most once, on a fork at block 0, from the funded genesis deployer, with
\* input local creation bytecode ++ args, and compares runtime code only
\* after that; ended normally, it has made exactly one deployment and then
\* exactly one runtime comparison and holds exactly one result, a Runtime one.
C8_PredeployPath ==
    /\ [](  maybe_predeploy
            => /\ IsNone(creation_data)
               /\ pc \in { "source_code", "build", "provided_args", "aborted" }
                         \cup PredeployPcs
               /\ CallsOf({ "get_transaction_by_hash", "get_transaction_receipt",
                            "get_transaction_count", "transact_with_env",
                            "deploy_create2_deployer" }) = {}
               /\ \A i \in CallsOf({ "match_bytecodes" }) : calls[i].who = "Runtime"
               /\ pc \in PredeployPcs
                    => constructor_args =
                         IF IsSome(provided_constructor_args)
                         THEN Unwrap(provided_constructor_args)
                         ELSE ProvenanceArgs
               /\ Cardinality(DeployCalls) <= 1
               /\ Len(executor.executed) = Cardinality(DeployCalls)
               /\ \A i \in 1..Len(executor.executed) :
                    /\ executor.executed[i] =
                         [op |-> "deploy",
                          tx |-> [from |-> GENESIS_DEPLOYER, to |-> None,
                                  input |-> local_bytecode \o constructor_args,
                                  nonce |-> 0],
                          fork |-> Some(genesis_block_number)]
                    /\ GENESIS_DEPLOYER \in executor.funded
               /\ Cardinality(RuntimeComparisons) <= 1
               /\ \A i \in RuntimeComparisons : \A j \in DeployCalls : j < i
               /\ pc = "done"
                    => /\ Cardinality(DeployCalls) = 1
                       /\ Cardinality(RuntimeComparisons) = 1
                       /\ Len(json_results) = 1
                       /\ json_results[1].bytecode_type = "Runtime"
               /\ pc # "done" => json_results = << >> )
    /\ [][ (pc = "creation_data" /\ pc' # "aborted")
           => (maybe_predeploy' <=> IsNone(creation_data')) ]_vars

\* a predeploy run ended normally, with args the user gave and a runtime
\* code on chain that differs from the deployed one
C8_Witness ==
    /\ maybe_predeploy
    /\ pc = "done"
    /\ Len(executor.executed) = 1
    /\ constructor_args # << >>
    /\ json_results[1].match_type # "Exact"

(* ------------------------------------------------------------------ *)
(* C9                                                                  *)
(* ------------------------------------------------------------------ *)
\* the run is of a creation through the deterministic deployer
ThroughCreate2Deployer ==
    /\ ~maybe_predeploy
    /\ receipt # NoReceipt
    /\ receipt.to = Some(DEFAULT_CREATE2_DEPLOYER)
\* positions where transaction.input is the replayed input
ReplayedInputPcs == { "replay_execute", "replay_read_code", "replay_compare" }

\* C9: for a creation through the deterministic deployer, whatever the
\* length of the mined input, the creation code compared is the mined input
\* without its first 32 bytes, the replayed input is those 32 bytes followed
\* by local creation bytecode ++ args, and taking the salt never panics.
C9_SaltPreserved ==
    ThroughCreate2Deployer
    => /\ ~(pc = "panicked"
            /\ error \in { "range start index 32 out of range for slice",
                           "range end index 32 out of range for slice" })
       /\ pc \in MinedInputPcs \cup { "resolve_args" }
            => /\ Len(transaction.input) >= SALT_LEN
               /\ maybe_creation_code =
                    SubSeq(transaction.input, SALT_LEN + 1, Len(transaction.input))
       /\ pc \in ReplayedInputPcs
            => /\ SubSeq(transaction.input, 1, SALT_LEN) = SALT
               /\ SubSeq(transaction.input, SALT_LEN + 1, Len(transaction.input))
                    = local_bytecode \o constructor_args

(* ------------------------------------------------------------------ *)
(* C10                                                                 *)
(* ------------------------------------------------------------------ *)
\* the artifact is built and linked, and a typed list was given inline or
\* read from the file
TypedListGiven ==
    /\ local_bytecode # << >>
    /\ IsSome(UserList)
    /\ IsSome(constructor_args_path) => Unwrap(constructor_args_path).readable
\* the number of parameters the artifact's constructor declares
DeclaredCount ==
    IF IsSome(artifact.constructor) THEN Unwrap(artifact.constructor) ELSE 0
\* the run ended at lines 195-229, or has not passed them, and has done
\* nothing that follows them
AbortedBeforeReplay ==
    /\ pc \in { "provided_args", "aborted" }
    /\ json_results = << >>
    /\ CallsOf({ "get_transaction_by_hash", "get_transaction_receipt", "get_block",
                 "get_transaction_count", "match_bytecodes" } \cup ReplayOps) = {}
    /\ NoReplay

\* C10, as stated: a typed list whose length differs from the declared
\* parameter count (none declared: zero) aborts the run before any lookup,
\* fork or execution, with no result.
C10_AnyMismatchAborts ==
    (TypedListGiven /\ Len(Unwrap(UserList)) # DeclaredCount)
    => AbortedBeforeReplay

\* C10, amended: with a declared constructor, a typed list of another length
\* aborts the run with the length-mismatch error before any lookup, fork or
\* execution, and with no result; without a declared constructor a typed
\* list of any length is accepted and encodes to no args.
C10_MismatchAborts ==
    /\ (TypedListGiven /\ IsSome(artifact.constructor)
          /\ Len(Unwrap(UserList)) # DeclaredCount)
       => /\ AbortedBeforeReplay
          /\ pc = "aborted" => error = "Mismatch of constructor arguments length"
    /\ (TypedListGiven /\ IsNone(artifact.constructor))
       => /\ error # "Mismatch of constructor arguments length"
          /\ pc \notin EarlyPcs \cup { "aborted", "panicked" }
               => constructor_args = << >>

\* a list read from the file, one value too many
C10_Witness ==
    /\ pc = "aborted"
    /\ error = "Mismatch of constructor arguments length"
    /\ IsSome(constructor_args_path)
    /\ IsSome(artifact.constructor)
    /\ Len(Unwrap(UserList)) > DeclaredCount

(* ------------------------------------------------------------------ *)
(* C11                                                                 *)
(* ------------------------------------------------------------------ *)
\* the creation comparisons made so far
CreationComparisons ==
    { i \in CallsOf({ "match_bytecodes" }) : calls[i].who = "Creation" }

\* C11: a non-predeploy run with nothing ignored whose creation comparison
\* answered m1 other than None and that ended normally has compared runtime
\* code once, with answer m2, and holds exactly [Creation m1, Runtime m2],
\* the Creation result first.
C11_CreationThenRuntime ==
    (~maybe_predeploy /\ ignore = None /\ pc = "done")
    => \A c \in CreationComparisons :
         calls[c].ret # "None"
         => /\ Cardinality(RuntimeComparisons) = 1
            /\ \A r \in RuntimeComparisons :
                 /\ c < r
                 /\ json_results = << Result("Creation", calls[c].ret),
                                      Result("Runtime", calls[r].ret) >>

\* both comparisons answered Exact
C11_Witness ==
    /\ ~maybe_predeploy
    /\ ignore = None
    /\ pc = "done"
    /\ CreationComparisons # {}
    /\ json_results = << Result("Creation", "Exact"), Result("Runtime", "Exact") >>

(* ------------------------------------------------------------------ *)
(* C12                                                                 *)
(* ------------------------------------------------------------------ *)
\* the collaborator calls a step makes
NewCalls == SubSeq(calls', Len(calls) + 1, Len(calls'))

\* C12: an error ends the run at once: with an error set the run is at its
\* aborted (or panicked) end, nothing was printed as JSON there whatever
\* results were recorded before, no step follows, and the step that failed
\* made each of its calls once.
C12_FatalErrorsEndTheRun ==
    /\ [](  /\ error # "" <=> pc \in { "aborted", "panicked" }
            /\ pc = "aborted" => stdout = None )
    /\ [][  /\ pc # "aborted"
            /\ pc' = "aborted"
                 => /\ Len(calls') <= Len(calls) + 2
                    /\ \A i, j \in 1..Len(NewCalls) :
                         i # j => NewCalls[i].op # NewCalls[j].op ]_vars

\* the replay failed after the Creation result was recorded
C12_Witness ==
    /\ pc = "aborted"
    /\ error = "get_fork_material"
    /\ Len(json_results) = 1
    /\ stdout = None

(* ------------------------------------------------------------------ *)
(* C13                                                                 *)
(* ------------------------------------------------------------------ *)
\* the lookups the provider answered with "no such transaction, receipt or
\* block"
AbsentAnswers ==
    { i \in CallsOf({ "get_transaction_by_hash", "get_transaction_receipt",
                      "get_block" }) : calls[i].ret = "absent" }

\* C13: once the provider has answered a transaction, receipt or block
\* lookup with "absent" the run is aborted, and no comparison was made after
\* that answer.
C13_AbsentAborts ==
    \A i \in AbsentAnswers :
      /\ pc = "aborted"
      /\ \A j \in CallsOf({ "match_bytecodes" }) : j < i

\* the same for the transaction and the receipt alone
C13_AbsentTransactionAborts ==
    \A i \in AbsentAnswers :
      calls[i].op # "get_block"
      => /\ pc = "aborted"
         /\ \A j \in CallsOf({ "match_bytecodes" }) : j < i

(* ------------------------------------------------------------------ *)
(* C14                                                                 *)
(* ------------------------------------------------------------------ *)
\* positions inside the replay, after its block is decided
ReplayPcs == { "replay_fork", "replay_env", "replay_input", "replay_execute",
               "replay_read_code", "replay_compare" }
\* the lookups of the creation transaction, in call order
TransactionLookups == CallsOf({ "get_transaction_by_hash" })
\* the errors of lines 462 and 470-472
BlockErrors == { "Invalid block number",
                 "Failed to get block number of the contract creation tx" }

\* C14: in a non-predeploy run the replay block is the number the user gave,
\* and without --block the block number the second lookup of the creation
\* transaction answered; a --block that is a tag or a hash ends the run at
\* lines 460-462 with "Invalid block number", a creation transaction without
\* a block number ends it too, and in both cases nothing of a replay was
\* done and no Runtime result is recorded.
C14_ReplayBlock ==
    /\ [](  ~maybe_predeploy
            => /\ (pc \in ReplayPcs \/ CallsOf(ReplayOps) # {})
                    => IF IsSome(block)
                       THEN /\ Unwrap(block).kind = "number"
                            /\ simulation_block = Unwrap(block).n
                            /\ Cardinality(TransactionLookups) = 1
                       ELSE /\ Cardinality(TransactionLookups) = 2
                            /\ \A i \in TransactionLookups :
                                 (\A j \in TransactionLookups : j <= i)
                                 => /\ calls[i].ret = "found"
                                    /\ calls[i].n = simulation_block
               /\ (pc = "aborted" /\ error \in BlockErrors)
                    => /\ NoReplay
                       /\ ResultsOf("Runtime") = {}
                       /\ IsSome(block) <=> error = "Invalid block number"
                       /\ IsSome(block) => Unwrap(block).kind # "number" )
    /\ [][ (pc = "simulation_block" /\ IsSome(block) /\ Unwrap(block).kind # "number")
           => (pc' = "aborted" /\ error' = "Invalid block number") ]_vars

\* --block latest, after the creation code was found to match
C14_Witness ==
    /\ pc = "aborted"
    /\ error = "Invalid block number"
    /\ block = Some([kind |-> "tag", n |-> 0])
    /\ Len(json_results) = 1

(* ------------------------------------------------------------------ *)
(* C16                                                                 *)
(* ------------------------------------------------------------------ *)
\* runtime is not ignored, and creation is ignored or its comparison
\* answered Exact or Partial
ReplayDue ==
    /\ ignore # Some("runtime")
    /\ \/ ignore = Some("creation")
       \/ \E c \in CreationComparisons : calls[c].ret \in { "Exact", "Partial" }
\* the run is inside the runtime block of lines 458-589, or was
InReplay == pc \in { "simulation_block" } \cup ReplayPcs \/ CallsOf(ReplayOps) # {}

\* C16: in a non-predeploy run the creation comparison is made exactly when
\* creation is not ignored; the replay is entered exactly when runtime is not
\* ignored and creation is ignored or compared Exact or Partial, and a run
\* that ends normally then has built the fork and executed the deployment;
\* whatever --ignore says, the args are resolved and the payload is local
\* creation bytecode ++ args before that.
C16_IgnorePolicy ==
    /\ [](  ~maybe_predeploy
            => /\ CreationComparisons # {} => ignore # Some("creation")
               /\ InReplay => ReplayDue
               /\ pc = "done"
                    => /\ ignore # Some("creation") <=> Cardinality(CreationComparisons) = 1
                       /\ ReplayDue <=> CallsOf({ "get_fork_material" }) # {}
                       /\ ReplayDue <=> Len(executor.executed) = 1
               /\ pc \in ResolvedPcs
                    => local_bytecode_vec = local_bytecode \o constructor_args )
    /\ [][ /\ pc = "resolve_args" => pc' = "creation_check"
           /\ pc = "creation_check"
                => /\ CreationComparisons' # {} <=> ignore # Some("creation")
                   /\ pc' = "simulation_block" <=> ReplayDue'
                   /\ pc' = "done" <=> ~ReplayDue' ]_vars

\* creation ignored: no creation comparison, and the replay is done
C16_Witness ==
    /\ ~maybe_predeploy
    /\ ignore = Some("creation")
    /\ pc = "done"
    /\ CreationComparisons = {}
    /\ Len(executor.executed) = 1
    /\ Len(json_results) = 1

(* ------------------------------------------------------------------ *)
(* C17                                                                 *)
(* ------------------------------------------------------------------ *)
\* the reads of the sender's transaction count
NonceReads == CallsOf({ "get_transaction_count" })
\* the replay block was decided before call i: the user gave it, or the
\* second lookup of the creation transaction answered it
BlockDecidedBefore(i) ==
    IF IsSome(block) THEN Unwrap(block) = [kind |-> "number", n |-> simulation_block]
    ELSE \E j \in TransactionLookups : j < i /\ calls[j].n = simulation_block

\* C17: in a replay the sender's transaction count is read at most once,
\* after the replay block is decided, as of block (replay block - 1), for the
\* creation transaction's `from`; from then on the transaction's nonce is
\* that count, and every execution comes after the read and carries it.
C17_NonceOfPreviousBlock ==
    ~maybe_predeploy
    => /\ Cardinality(NonceReads) <= 1
       /\ \A i \in NonceReads :
            /\ BlockDecidedBefore(i)
            /\ simulation_block >= 1
            /\ calls[i].at = simulation_block - 1
            /\ calls[i].who = transaction.from
            /\ pc \in ReplayPcs \cup { "done" } => transaction.nonce = calls[i].n
            /\ \A j \in CallsOf({ "transact_with_env", "deploy_with_env" }) : i < j
       /\ \A k \in 1..Len(executor.executed) :
            \E i \in NonceReads : executor.executed[k].tx.nonce = calls[i].n

\* the count differs from the nonce the transaction was mined with
C17_Witness ==
    /\ ~maybe_predeploy
    /\ Len(executor.executed) = 1
    /\ executor.executed[1].tx.nonce = 0
    /\ \E tx \in Transactions : tx.nonce # 0
    /\ pc = "replay_read_code"

(* ------------------------------------------------------------------ *)
(* C18                                                                 *)
(* ------------------------------------------------------------------ *)
\* positions where the block environment is complete: lines 511 and 294 are
\* behind
ReplayEnvSetPcs == { "replay_input", "replay_execute", "replay_read_code",
                     "replay_compare" }
PredeployEnvSetPcs == { "predeploy_deploy", "predeploy_read_code", "predeploy_compare" }

\* C18: with the block environment complete, a replay at block b has its
\* fork pinned at b - 1, the environment's block number b and the header
\* values (timestamp, coinbase, difficulty, prevrandao, base fee, gas limit)
\* of block b; a predeploy run has its fork pinned at 0, block number 0 and
\* the header values of the genesis block.
C18_ForkAndEnvironment ==
    /\ (~maybe_predeploy /\ pc \in ReplayEnvSetPcs)
       => /\ fork_config.fork_block_number = Some(simulation_block - 1)
          /\ env.number = simulation_block
          /\ env.header = Some(simulation_block)
    /\ (maybe_predeploy /\ pc \in PredeployEnvSetPcs)
       => /\ fork_config.fork_block_number = Some(genesis_block_number)
          /\ env.number = genesis_block_number
          /\ env.header = Some(genesis_block_number)

\* the same without the header values, and with them when the block was found
C18_ForkAndNumber ==
    /\ (~maybe_predeploy /\ pc \in ReplayEnvSetPcs)
       => /\ fork_config.fork_block_number = Some(simulation_block - 1)
          /\ env.number = simulation_block
          /\ env.header \in { None, Some(simulation_block) }
          /\ env.header = None
               <=> \E i \in AbsentAnswers : calls[i].op = "get_block"
    /\ (maybe_predeploy /\ pc \in PredeployEnvSetPcs)
       => /\ fork_config.fork_block_number = Some(genesis_block_number)
          /\ env.number = genesis_block_number
          /\ env.header \in { None, Some(genesis_block_number) }
          /\ env.header = None
               <=> \E i \in AbsentAnswers : calls[i].op = "get_block"

(* ------------------------------------------------------------------ *)
(* C19                                                                 *)
(* ------------------------------------------------------------------ *)
\* the receipt is of a creation of the target, or of a call to the
\* deterministic deployer
SupportedReceipt ==
    \/ receipt.to = None /\ receipt.contract_address = Some(TARGET)
    \/ receipt.to = Some(DEFAULT_CREATE2_DEPLOYER)
\* the errors of lines 390-393 and 536
ShapeError == "Could not extract the creation code for contract at address"
NotCreationError == "Transaction to address is not the default create2 deployer"

\* C19: a non-predeploy run is past the creation code extraction, or has
\* compared or replayed anything, only with a receipt of a creation of the
\* target or of a call to the deterministic deployer; any other receipt ends
\* the run at lines 383-394 with no result, no comparison and nothing of a
\* replay; and no transaction whose `to` is set to another address than the
\* deterministic deployer is ever executed: the run ends at line 536.
C19_SupportedShapes ==
    /\ [](  ~maybe_predeploy
            => /\ (pc \in { "resolve_args" } \cup ResolvedPcs
                     \/ CallsOf({ "match_bytecodes" } \cup ReplayOps) # {})
                    => SupportedReceipt
               /\ (pc = "aborted" /\ error = ShapeError)
                    => /\ ~SupportedReceipt
                       /\ json_results = << >>
                       /\ CallsOf({ "match_bytecodes" }) = {}
                       /\ NoReplay
               /\ \A k \in 1..Len(executor.executed) :
                    executor.executed[k].tx.to \in { None, Some(DEFAULT_CREATE2_DEPLOYER) }
               /\ (pc = "aborted" /\ error = NotCreationError)
                    => /\ transaction.to \notin { None, Some(DEFAULT_CREATE2_DEPLOYER) }
                       /\ executor.executed = << >>
                       /\ ResultsOf("Runtime") = {} )
    /\ [][ /\ (pc = "creation_code" /\ ~SupportedReceipt)
                => (pc' = "aborted" /\ error' = ShapeError)
           /\ (pc = "replay_execute"
                 /\ transaction.to \notin { None, Some(DEFAULT_CREATE2_DEPLOYER) })
                => (pc' = "aborted" /\ error' = NotCreationError) ]_vars

\* a creation, but of another contract than the target
C19_Witness ==
    /\ pc = "aborted"
    /\ error = ShapeError
    /\ receipt.to = None
    /\ receipt.contract_address = Some(OTHER_ADDRESS)

\* the receipt tells of a creation of the target, the transaction of a call
C19_CallNeverExecuted ==
    /\ pc = "aborted"
    /\ error = NotCreationError
    /\ SupportedReceipt

(* ------------------------------------------------------------------ *)
(* C20                                                                 *)
(* ------------------------------------------------------------------ *)
\* the errors of lines 540-542, 320-325/554-559 and 327-332/561-566
ReadBackErrors ==
    { "call result is not exactly 20 bytes",
      "Failed to get runtime code for contract deployed on fork",
      "Bytecode does not exist for contract deployed on fork" }
\* the executions on the fork and the reads of the deployed account
Executions == CallsOf({ "transact_with_env", "deploy_with_env" })
FactoryCalls == CallsOf({ "transact_with_env" })
AccountReads == CallsOf({ "basic" })

\* C20: runtime code is compared only after an execution on the fork and,
\* after that, a read of the deployed account that gave its code; a factory
\* call whose result is not 20 bytes long, a missing account and missing code
\* each end the run with no runtime comparison and no Runtime result; and
\* the deterministic deployer is installed in the fork before the factory
\* call.
C20_CodeReadBack ==
    /\ [](  /\ \A i \in RuntimeComparisons :
                 /\ \E e \in Executions : \E b \in AccountReads : e < b /\ b < i
                 /\ fork_runtime_code \in ForkCodes
            /\ \A t \in FactoryCalls :
                 /\ executor.create2_deployer
                 /\ \E d \in CallsOf({ "deploy_create2_deployer" }) : d < t
                 /\ calls[t].n \notin { -1, ADDRESS_LEN }
                      => (pc = "aborted" /\ error = "call result is not exactly 20 bytes")
            /\ (pc = "aborted" /\ error \in ReadBackErrors)
                 => /\ RuntimeComparisons = {}
                    /\ ResultsOf("Runtime") = {}
                    /\ Executions # {}
            /\ ResultsOf("Runtime") # {}
                 => \/ RuntimeComparisons # {}
                    \/ json_results = << Result("Creation", "None"),
                                         Result("Runtime", "None") >> )
    /\ [][ (pc \in { "replay_read_code", "predeploy_read_code" } /\ pc' # "aborted")
           => fork_runtime_code' \in ForkCodes ]_vars

\* the factory returned 32 bytes, after the creation code was found to match
C20_Witness ==
    /\ pc = "aborted"
    /\ error = "call result is not exactly 20 bytes"
    /\ executor.create2_deployer
    /\ \E t \in FactoryCalls : calls[t].n = ABI_WORD
    /\ Len(json_results) = 1

(* ------------------------------------------------------------------ *)
(* C21                                                                 *)
(* ------------------------------------------------------------------ *)
\* the subtraction of line 478 went below zero: it panicked, or it wrapped
Underflowed ==
    \/ pc = "panicked" /\ error = "attempt to subtract with overflow"
    \/ ~maybe_predeploy /\ fork_config.fork_block_number = Some(U64_MAX)

\* C21: `simulation_block - 1` never underflows: the run never panics in the
\* subtraction, the block the fork is pinned at in a replay is the replay
\* block less one and is a block number from 0 on, and so is the block the
\* sender's count is read at.
C21_NoUnderflow ==
    /\ ~Underflowed
    /\ (~maybe_predeploy /\ IsSome(fork_config.fork_block_number))
         => /\ Unwrap(fork_config.fork_block_number) = simulation_block - 1
            /\ Unwrap(fork_config.fork_block_number) >= 0
    /\ ~maybe_predeploy
         => \A i \in NonceReads :
              calls[i].at = simulation_block - 1 /\ calls[i].at >= 0

\* it underflows at replay block 0 and nowhere else
C21_UnderflowOnlyAtZero ==
    /\ Underflowed => simulation_block = 0
    /\ (~maybe_predeploy /\ IsSome(fork_config.fork_block_number) /\ simulation_block >= 1)
         => Unwrap(fork_config.fork_block_number) = simulation_block - 1

(* ------------------------------------------------------------------ *)
(* C22                                                                 *)
(* ------------------------------------------------------------------ *)
\* the reads of the target's code on chain, in call order
CodeReads == CallsOf({ "get_code_at" })
\* the read made for a runtime comparison: the call right before it
CodeReadFor(r) == calls[r - 1]

\* C22: the first read of the target's code asks for the latest block, and
\* when it answers no code the run ends there with "No bytecode found",
\* having asked about no other block; the code a replay compares is read at
\* the replay block, the code a predeploy run compares at the latest block;
\* and every read is of the target.
C22_CodeAtReplayBlock ==
    /\ \A i \in CodeReads :
         /\ calls[i].who = TARGET
         /\ i = 1 \/ i + 1 \in RuntimeComparisons \/ pc = "aborted"
    /\ calls # << >>
         => /\ calls[1].op = "get_code_at"
            /\ calls[1].at = -1
            /\ calls[1].n = 0
                 <=> (pc = "aborted" /\ error = "No bytecode found at address")
            /\ calls[1].n = 0 => Len(calls) = 1
    /\ \A r \in RuntimeComparisons :
         /\ CodeReadFor(r).op = "get_code_at"
         /\ CodeReadFor(r).at = IF maybe_predeploy THEN -1 ELSE simulation_block
         /\ ~maybe_predeploy => CodeReadFor(r).at >= 0

\* the latest code is not empty, the code at the replay block is, and the
\* replay compared it
C22_Witness ==
    /\ ~maybe_predeploy
    /\ pc = "done"
    /\ calls[1].n > 0
    /\ \E r \in RuntimeComparisons :
         /\ CodeReadFor(r).at = simulation_block
         /\ CodeReadFor(r).n = 0
    /\ ResultsOf("Runtime") # {}

============================================================================
